---- MODULE Spec2Model ----
(***************************************************************************)
(* Model of primes/include/socket.hpp: net::socket (the owning handle of   *)
(* one OS socket descriptor), net::socket_stream (a handle plus a          *)
(* stdio_filebuf and an iostream over it) and the part of the OS they      *)
(* talk to (the descriptor table, connections, receive queues).            *)
(***************************************************************************)
EXTENDS Integers, Sequences, FiniteSets, TLC

\* ------------------------------------------------------------------ bounds
MaxHandles == 3      \* storage slots for net::socket objects
MaxStreams == 2      \* storage slots for net::socket_stream objects
MaxFd      == 3      \* size of the process's descriptor table
MaxSize    == 4      \* longest buffer handed to send_all / recv_all
MaxReads   == 2      \* std::getline calls made on one stream

Handles == 1..MaxHandles
Streams == 1..MaxStreams
Fds     == 0..(MaxFd - 1)
Ports   == {0, 43981}     \* values of portno: 0 (never set) and 0xABCD
ArgPorts == {43981}       \* ports handed to connect and listen
Hosts   == {"127.0.0.1", "nohost"}

VARIABLES
    hs,      \* hs[h]: the net::socket object in slot h: st, sock, portno
    ss,      \* ss[s]: the net::socket_stream in slot s: st, sock (the private
             \* member's descriptor), fbuf (the filebuf's descriptor), pend,
             \* ibuf, bits (the iostream's state) and the caller's getline
    fds,     \* fds[f]: the OS's entry for descriptor f
    chan,    \* chan[f]: bytes queued in the OS for a recv on descriptor f
    tx,      \* the send_all call a run follows
    rx,      \* the recv_all call a run follows
    op,      \* the last operation: name and the slots it was applied to
    res,     \* its outcome: "ok" or "network_exception"
    calls,   \* the OS calls it issued, in order
    errno,   \* what it left in errno: the name of its last call that failed
             \* with an error code, "stale" (whatever was there before the
             \* operation) if none did; a network_exception holds this value
    pre      \* the subject object's fields right before it

vars == <<hs, ss, fds, chan, tx, rx, op, res, calls, errno, pre>>

\* --------------------------------------------------------------- the OS
NoFd == [open |-> FALSE, shut |-> FALSE, role |-> "none", port |-> 0,
         peer |-> -1, backlog |-> <<>>]

IsOpen(F, fd) == fd \in Fds /\ F[fd].open

\* One OS call as it is logged: by is the object that issued it ("socket" or
\* "fbuf"), ok says whether fd named an open descriptor when it was issued.
Call(by, name, F, fd) == [by |-> by, call |-> name, fd |-> fd, ok |-> IsOpen(F, fd)]

\* An effect: the descriptor table, the calls issued so far and errno.
Eff(F) == [F |-> F, calls |-> <<>>, errno |-> "stale"]

Log(E, F, by, name, fd) ==
    [E EXCEPT !.F = F, !.calls = Append(E.calls, Call(by, name, E.F, fd))]

\* A call that returned -1 has set errno.
Failed(E, name) == [E EXCEPT !.errno = name]

\* socket(2): the lowest free descriptor, or -1 when the table is full.
LowestFree(F) ==
    IF \E f \in Fds : ~F[f].open
    THEN CHOOSE f \in Fds : ~F[f].open /\ \A g \in Fds : ~F[g].open => f <= g
    ELSE -1

OsOpen(F, fd, role, peer) ==
    [F EXCEPT ![fd] = [NoFd EXCEPT !.open = TRUE, !.role = role, !.peer = peer]]

RemoveFrom(q, x) == SelectSeq(q, LAMBDA y : y # x)

\* close(2) on an open descriptor frees it; the peer and the listeners'
\* backlogs forget it.  On anything else it fails (EBADF) and changes nothing.
OsClose(F, fd) ==
    IF IsOpen(F, fd)
    THEN [f \in Fds |->
            IF f = fd THEN NoFd
            ELSE [F[f] EXCEPT !.peer = IF @ = fd THEN -1 ELSE @,
                              !.backlog = RemoveFrom(@, fd)]]
    ELSE F

OsShutdown(F, fd) == IF IsOpen(F, fd) THEN [F EXCEPT ![fd].shut = TRUE] ELSE F

\* shutdown(2) fails on a bad descriptor (EBADF) and on a socket that was
\* never connected (ENOTCONN); close(2) fails on a bad descriptor.
ShutdownFails(F, fd) == ~IsOpen(F, fd) \/ F[fd].role \notin {"conn", "listen"}

Connected(F, fd) ==
    /\ IsOpen(F, fd) /\ F[fd].role = "conn" /\ ~F[fd].shut
    /\ F[fd].peer >= 0 /\ ~F[F[fd].peer].shut

\* write(2) of the filebuf succeeds on a working connection only.
WriteOk(F, fd) == Connected(F, fd)

\* ------------------------------------------------------------ socket_ops
socket_ops_shutdown(E, fd) ==
    LET E1 == Log(E, OsShutdown(E.F, fd), "socket", "shutdown", fd) IN
    IF ShutdownFails(E.F, fd) THEN Failed(E1, "shutdown") ELSE E1

sys_close(E, by, fd) ==
    LET E1 == Log(E, OsClose(E.F, fd), by, "close", fd) IN
    IF ~IsOpen(E.F, fd) THEN Failed(E1, "close") ELSE E1

socket_ops_close(E, fd) == sys_close(socket_ops_shutdown(E, fd), "socket", fd)

create_inet(F) == LowestFree(F)

\* -------------------------------------------------------------- socket
NoHandle == [st |-> "none", sock |-> -1, portno |-> 0]

\* ~socket(): close the descriptor if there is one.
socket_dtor_unguarded(E, sock) == socket_ops_close(E, sock)

socket_dtor(E, sock) == IF sock >= 0 THEN socket_ops_close(E, sock) ELSE E

\* socket(socket&& rhs): what is left in rhs.sock.
MovedFromSock_copy(sock) == sock

MovedFromSock(sock) == -1

\* socket(socket&& rhs) never assigns portno: the new object's portno is
\* whatever its storage held.
MovedToPortno(portno) == Ports

\* ----------------------------------------------------------- bookkeeping
\* Receive queues of descriptors that are no longer open are gone.
Drain(F, C) == [f \in Fds |-> IF F[f].open THEN C[f] ELSE <<>>]

\* A send_all / recv_all call: st is "idle" (none yet), "run" (in the loop),
\* "done" (returned) or "failed" (left by network_exception); h the handle,
\* data the caller's buffer, off the loop variable, n the result of the last
\* attempt, at and len the offset it was issued at and the length it asked
\* for, tries the attempts made, fd the descriptor whose receive queue the
\* call feeds (send_all) or drains (recv_all), -1 if there is none.
Idle == [st |-> "idle", h |-> 0, data |-> <<>>, size |-> 0, off |-> 0,
         fd |-> -1, n |-> 0, at |-> 0, len |-> 0, tries |-> 0]

\* A handle inside a blocking send_all / recv_all is not used for anything else.
Busy(h) == (tx.st = "run" /\ tx.h = h) \/ (rx.st = "run" /\ rx.h = h)

Done(name, a, b, result, E, before) ==
    /\ op' = [name |-> name, a |-> a, b |-> b]
    /\ res' = result
    /\ calls' = E.calls
    /\ errno' = E.errno
    /\ fds' = E.F
    /\ chan' = Drain(E.F, chan)
    /\ pre' = before

Snap(o) == [sock |-> o.sock, portno |-> o.portno, fbuf |-> -1,
            moved |-> FALSE, bits |-> {}]
SnapStream(o) == [sock |-> o.sock, portno |-> 0, fbuf |-> o.fbuf,
                  moved |-> o.moved, bits |-> o.bits]

\* Objects are laid out in slot order: a new object takes the first slot
\* that never held one.
Fresh(h) == hs[h].st = "none" /\ \A g \in Handles : g < h => hs[g].st # "none"

\* ------------------------------------------------------ handle operations
\* socket(): a new descriptor, or network_exception and no object.
Create(h) ==
    /\ Fresh(h)
    /\ LET fd == create_inet(fds) IN
       IF fd < 0
       THEN /\ hs' = hs
            /\ Done("create", h, 0, "network_exception", Failed(Eff(fds), "socket"),
                    Snap(NoHandle))
       ELSE /\ hs' = [hs EXCEPT ![h] = [st |-> "live", sock |-> fd, portno |-> 0]]
            /\ Done("create", h, 0, "ok", Eff(OsOpen(fds, fd, "new", -1)), Snap(NoHandle))
    /\ UNCHANGED <<ss, tx, rx>>

\* ~socket(), also on an object that was destroyed before.  A destroyed
\* object keeps sock = -1; its portno is no longer observable.
Destroy(h) ==
    /\ hs[h].st \in {"live", "dead"}
    /\ ~Busy(h)
    /\ hs' = [hs EXCEPT ![h] = [st |-> "dead", sock |-> -1, portno |-> 0]]
    /\ Done("destroy", h, 0, "ok", socket_dtor(Eff(fds), hs[h].sock), Snap(hs[h]))
    /\ UNCHANGED <<ss, tx, rx>>

\* socket(socket&& rhs): d is constructed from h.
Move(h, d) ==
    /\ hs[h].st = "live"
    /\ Fresh(d)
    /\ ~Busy(h)
    /\ \E p \in MovedToPortno(hs[h].portno) :
         hs' = [hs EXCEPT ![d] = [st |-> "live", sock |-> hs[h].sock, portno |-> p],
                          ![h].sock = MovedFromSock(hs[h].sock)]
    /\ Done("move", h, d, "ok", Eff(fds), Snap(hs[h]))
    /\ UNCHANGED <<ss, tx, rx>>

\* gethostbyname(hostname): null for a name that does not resolve.
gethostbyname(host) == host = "127.0.0.1"

Backlog == 5

Listeners(F, port) ==
    {l \in Fds : F[l].open /\ F[l].role = "listen" /\ F[l].port = port
                 /\ Len(F[l].backlog) < Backlog}

\* connect(2) succeeds on a fresh open socket when somebody listens on port.
ConnectOk(F, fd, port) ==
    IsOpen(F, fd) /\ F[fd].role = "new" /\ port # 0 /\ Listeners(F, port) # {}

OsConnect(F, fd, port) ==
    LET l == CHOOSE l \in Listeners(F, port) : TRUE IN
    [F EXCEPT ![fd].role = "conn", ![l].backlog = Append(@, fd)]

\* bind(2) succeeds on a fresh open socket when the port is not taken.
BindOk(F, fd, port) ==
    /\ IsOpen(F, fd) /\ F[fd].role = "new"
    /\ port = 0 \/ ~\E f \in Fds : F[f].open /\ F[f].role \in {"bound", "listen"}
                                   /\ F[f].port = port

\* if (ret < 0) after connect(2).
connect_failed_positive(ret) == ret > 0

connect_failed(ret) == ret < 0

\* connect(hostname, port): portno is recorded first; a failed resolution
\* or a failed connect(2) throws, and nothing else of the object changes.
Connect(h, host, port) ==
    /\ hs[h].st = "live"
    /\ ~Busy(h)
    /\ hs' = [hs EXCEPT ![h].portno = port]
    /\ LET fd == hs[h].sock
           ret == IF ConnectOk(fds, fd, port) THEN 0 ELSE -1
           E == Log(Eff(fds), IF ret = 0 THEN OsConnect(fds, fd, port) ELSE fds,
                    "socket", "connect", fd) IN
       IF ~gethostbyname(host)
       THEN Done("connect", h, 0, "network_exception", Eff(fds), Snap(hs[h]))
       ELSE IF connect_failed(ret)
       THEN Done("connect", h, 0, "network_exception", Failed(E, "connect"), Snap(hs[h]))
       ELSE Done("connect", h, 0, "ok", E, Snap(hs[h]))
    /\ UNCHANGED <<ss, tx, rx>>

\* if (ret < 0) after bind(2).
bind_failed_unchecked(ret) == FALSE

bind_failed(ret) == ret < 0

\* if (ret < 0) after listen(2).
listen_failed(ret) == ret < 0

\* listen(port): portno is recorded first; then bind(2) and, unless that
\* throws, listen(2) with a backlog of 5, which may fail as well.
Listen(h, port) ==
    /\ hs[h].st = "live"
    /\ ~Busy(h)
    /\ hs' = [hs EXCEPT ![h].portno = port]
    /\ LET fd == hs[h].sock
           ret1 == IF BindOk(fds, fd, port) THEN 0 ELSE -1
           E1 == IF ret1 = 0
                 THEN Log(Eff(fds), [fds EXCEPT ![fd].role = "bound", ![fd].port = port],
                          "socket", "bind", fd)
                 ELSE Failed(Log(Eff(fds), fds, "socket", "bind", fd), "bind") IN
       IF bind_failed(ret1)
       THEN Done("listen", h, 0, "network_exception", E1, Snap(hs[h]))
       ELSE \E lok \in (IF IsOpen(E1.F, fd) THEN BOOLEAN ELSE {FALSE}) :
              LET ret2 == IF lok THEN 0 ELSE -1
                  E2 == IF ret2 = 0
                        THEN Log(E1, [E1.F EXCEPT ![fd].role = "listen"],
                                 "socket", "listen", fd)
                        ELSE Failed(Log(E1, E1.F, "socket", "listen", fd), "listen") IN
              IF listen_failed(ret2)
              THEN Done("listen", h, 0, "network_exception", E2, Snap(hs[h]))
              ELSE Done("listen", h, 0, "ok", E2, Snap(hs[h]))
    /\ UNCHANGED <<ss, tx, rx>>

\* accept(2) fails on anything but a listening socket and when the table is
\* full; it blocks while the backlog is empty.
AcceptFails(F, fd) == ~(IsOpen(F, fd) /\ F[fd].role = "listen") \/ LowestFree(F) < 0

OsAccept(F, fd) ==
    LET c == Head(F[fd].backlog)
        n == LowestFree(F) IN
    [OsOpen(F, n, "conn", c) EXCEPT ![fd].backlog = Tail(@), ![c].peer = n]

\* if (client < 0) after accept(2).
accept_failed_unchecked(client) == FALSE

accept_failed(client) == client < 0

\* accept(): the accepted descriptor wrapped by socket(int) in slot d.
Accept(h, d) ==
    /\ hs[h].st = "live"
    /\ Fresh(d)
    /\ ~Busy(h)
    /\ LET fd == hs[h].sock
           client == IF AcceptFails(fds, fd) THEN -1 ELSE LowestFree(fds)
           E == IF client < 0
                THEN Failed(Log(Eff(fds), fds, "socket", "accept", fd), "accept")
                ELSE Log(Eff(fds), OsAccept(fds, fd), "socket", "accept", fd) IN
       /\ IF client < 0 THEN TRUE ELSE fds[fd].backlog # <<>>
       /\ IF accept_failed(client)
          THEN /\ hs' = hs
               /\ Done("accept", h, d, "network_exception", E, Snap(hs[h]))
          ELSE /\ hs' = [hs EXCEPT ![d] = [st |-> "live", sock |-> client, portno |-> 0]]
               /\ Done("accept", h, d, "ok", E, Snap(hs[h]))
    /\ UNCHANGED <<ss, tx, rx>>

\* close(): shutdown(2) of both directions, whatever sock holds.
socket_close_releasing(E, sock) == socket_ops_close(E, sock)

socket_close(E, sock) == socket_ops_shutdown(E, sock)

Close(h) ==
    /\ hs[h].st = "live"
    /\ ~Busy(h)
    /\ Done("close", h, 0, "ok", socket_close(Eff(fds), hs[h].sock), Snap(hs[h]))
    /\ UNCHANGED <<hs, ss, tx, rx>>

\* ------------------------------------------------------- socket_stream
\* sock is the member socket's descriptor, fbuf the descriptor the filebuf
\* is open on (-1: not open), pend whether written bytes wait in the filebuf,
\* ibuf the bytes read ahead into it, bits the iostate of the member stream,
\* moved whether the object was moved from; rd, line and reads describe the
\* caller's std::getline(stream, line) calls: in progress or not, the line
\* extracted by the last one, and how many were made.
NoStream == [st |-> "none", sock |-> -1, fbuf |-> -1, pend |-> FALSE,
             ibuf |-> <<>>, bits |-> {}, moved |-> FALSE,
             rd |-> "no", line |-> <<>>, reads |-> 0]

FreshStream(s) == ss[s].st = "none" /\ \A g \in Streams : g < s => ss[g].st # "none"

\* stdio_filebuf(fd, mode): fdopen(3) succeeds on an open descriptor only;
\* the filebuf then owns the descriptor and closes it when it is destroyed.
filebuf_open_sentinel(F, fd) == -1

filebuf_open(F, fd) == IF IsOpen(F, fd) THEN fd ELSE -1

\* ~stdio_filebuf: an open filebuf writes out what is pending, then closes
\* its descriptor.
filebuf_flush(E, fbuf, pend) ==
    LET E1 == Log(E, E.F, "fbuf", "write", fbuf) IN
    IF fbuf >= 0 /\ pend
    THEN IF WriteOk(E.F, fbuf) THEN E1 ELSE Failed(E1, "write")
    ELSE E

filebuf_dtor(E, fbuf, pend) ==
    IF fbuf >= 0 THEN sys_close(filebuf_flush(E, fbuf, pend), "fbuf", fbuf) ELSE E

\* ~socket_stream(): the body runs sock.close(); then the members go in
\* reverse order of declaration: stream, fbuf, sock.
stream_dtor(E, s) ==
    socket_dtor(filebuf_dtor(socket_close(E, s.sock), s.fbuf, s.pend), s.sock)

\* socket_stream(net::socket&& _sock): sock is move-constructed from h,
\* fbuf is opened on sock.sock.
StreamConstruct(s, h) ==
    /\ FreshStream(s)
    /\ hs[h].st = "live"
    /\ ~Busy(h)
    /\ ss' = [ss EXCEPT ![s] = [NoStream EXCEPT !.st = "live", !.sock = hs[h].sock,
                                                !.fbuf = filebuf_open(fds, hs[h].sock)]]
    /\ hs' = [hs EXCEPT ![h].sock = MovedFromSock(hs[h].sock)]
    /\ Done("stream", h, s, "ok", Eff(fds), Snap(hs[h]))
    /\ UNCHANGED <<tx, rx>>

\* socket_stream(socket_stream&& ss): sock and fbuf are move-constructed,
\* stream is a new iostream over the new fbuf; a moved-from filebuf is not
\* open and holds nothing.
StreamMove(s, d) ==
    /\ ss[s].st = "live"
    /\ ss[s].rd = "no"
    /\ FreshStream(d)
    /\ ss' = [ss EXCEPT ![d] = [NoStream EXCEPT !.st = "live", !.sock = ss[s].sock,
                                                !.fbuf = ss[s].fbuf, !.pend = ss[s].pend,
                                                !.ibuf = ss[s].ibuf],
                        ![s].sock = MovedFromSock(ss[s].sock),
                        ![s].fbuf = -1, ![s].pend = FALSE, ![s].ibuf = <<>>,
                        ![s].moved = TRUE]
    /\ Done("stream_move", s, d, "ok", Eff(fds), SnapStream(ss[s]))
    /\ UNCHANGED <<hs, tx, rx>>

\* stream << x: on a good stream the bytes wait in the open filebuf; a
\* filebuf that is not open takes none (badbit); a stream that is not good
\* does not try (failbit).
StreamWrite(s) ==
    /\ ss[s].st = "live"
    /\ ss[s].rd = "no"
    /\ IF ss[s].bits # {}
       THEN ss' = [ss EXCEPT ![s].bits = @ \cup {"fail"}]
       ELSE IF ss[s].fbuf < 0
       THEN ss' = [ss EXCEPT ![s].bits = @ \cup {"bad"}]
       ELSE /\ ~ss[s].pend
            /\ ss' = [ss EXCEPT ![s].pend = TRUE]
    /\ Done("stream_write", s, 0, "ok", Eff(fds), SnapStream(ss[s]))
    /\ UNCHANGED <<hs, tx, rx>>

\* stream.flush(): the pending bytes are written to the descriptor; if the
\* write fails they stay pending and the stream gets badbit.
StreamFlush(s) ==
    /\ ss[s].st = "live"
    /\ ss[s].rd = "no"
    /\ ss[s].pend
    /\ ss' = IF WriteOk(fds, ss[s].fbuf)
             THEN [ss EXCEPT ![s].pend = FALSE]
             ELSE [ss EXCEPT ![s].bits = @ \cup {"bad"}]
    /\ Done("stream_flush", s, 0, "ok", filebuf_flush(Eff(fds), ss[s].fbuf, TRUE),
            SnapStream(ss[s]))
    /\ UNCHANGED <<hs, tx, rx>>

StreamDestroy(s) ==
    /\ ss[s].st = "live"
    /\ ss[s].rd = "no"
    /\ ss' = [ss EXCEPT ![s] = [NoStream EXCEPT !.st = "dead"]]
    /\ Done("stream_destroy", s, 0, "ok", stream_dtor(Eff(fds), ss[s]), SnapStream(ss[s]))
    /\ UNCHANGED <<hs, tx, rx>>


\* ------------------------------------------------------ send / receive
Min(a, b) == IF a < b THEN a ELSE b

Ping == <<"p", "i", "n", "g">>

Text == Ping \o <<"p", "o", "n", "g">>

\* The buffers handed to send_all: the first k bytes of Text.
Payloads == {SubSeq(Text, 1, k) : k \in 0..MaxSize}

\* The results send(2) can give for len bytes on fd: -1 on a descriptor that
\* is not a working connection, else any count from 1 to len.
SendResults(F, fd, len) == IF ~Connected(F, fd) THEN {-1} ELSE 1..len

\* The results recv(2) can give: -1 on a descriptor that is no connection,
\* any count from 1 to len of the bytes queued, 0 at end of stream (none:
\* the call blocks).
RecvResults(F, C, fd, len) ==
    IF ~(IsOpen(F, fd) /\ F[fd].role = "conn") THEN {-1}
    ELSE IF C[fd] # <<>> THEN 1..Min(len, Len(C[fd]))
    ELSE IF F[fd].shut \/ F[fd].peer < 0 \/ F[F[fd].peer].shut THEN {0}
    ELSE {}

\* socket_ops::send / recv with result n: only a result of -1 sets errno.
socket_ops_send(E, fd, n) ==
    LET E1 == Log(E, E.F, "socket", "send", fd) IN
    IF n < 0 THEN Failed(E1, "send") ELSE E1

socket_ops_recv(E, fd, n) ==
    LET E1 == Log(E, E.F, "socket", "recv", fd) IN
    IF n < 0 THEN Failed(E1, "recv") ELSE E1

\* send / recv: a result n <= 0 is thrown as network_exception.
Throws_never(n) == FALSE

Throws_negative(n) == n < 0

Throws(n) == n <= 0

\* while (off != size)
LoopTest_once(off, size) == off # size \/ off = 0

LoopTest(off, size) == off # size

\* buffer + off, size - off: the part of the buffer an attempt is given.
BufTail_whole(buf, off) == buf

BufTail(buf, off) == SubSeq(buf, off + 1, Len(buf))

\* recv stores the n bytes it got at buffer + off.
Store(buf, off, got) ==
    [i \in 1..Len(buf) |-> IF i > off /\ i <= off + Len(got) THEN got[i - off] ELSE buf[i]]

\* The length an attempt asks for: size - off.
ReqLen_whole(size, off) == size

ReqLen(size, off) == size - off

\* The first n bytes at a pointer into buf; what lies past the end of the
\* buffer is not the caller's data.
Take(buf, n) == [i \in 1..n |-> IF i <= Len(buf) THEN buf[i] ELSE "?"]

\* One attempt at offset off that returned n: a throw leaves the loop,
\* otherwise off += n, then the loop test again.
Advance(x, n) ==
    [x EXCEPT !.off = IF Throws(n) THEN @ ELSE @ + n,
              !.n = n, !.tries = @ + 1,
              !.at = x.off, !.len = ReqLen(x.size, x.off),
              !.st = IF Throws(n) THEN "failed"
                     ELSE IF LoopTest(x.off + n, x.size) THEN "run" ELSE "done"]

IODone(name, h, x, E) ==
    /\ op' = [name |-> name, a |-> h, b |-> 0]
    /\ res' = IF x.st = "failed" THEN "network_exception" ELSE "ok"
    /\ calls' = E.calls
    /\ errno' = E.errno
    /\ pre' = Snap(hs[h])
    /\ UNCHANGED <<hs, ss, fds>>

\* send_all(buffer, size) is entered: off = 0 and the first loop test.
SendAllBegin(h, data) ==
    /\ tx.st = "idle"
    /\ hs[h].st = "live"
    /\ ~Busy(h)
    /\ LET fd == hs[h].sock
           to == IF Connected(fds, fd) THEN fds[fd].peer ELSE -1
           x == [Idle EXCEPT !.h = h, !.data = data, !.size = Len(data), !.fd = to,
                             !.st = IF LoopTest(0, Len(data)) THEN "run" ELSE "done"] IN
       /\ tx' = x
       /\ IODone("send_all", h, x, Eff(fds))
    /\ UNCHANGED <<rx, chan>>

\* One turn of send_all's loop: off += send(buffer + off, size - off).
SendStep ==
    /\ tx.st = "run"
    /\ hs[tx.h].st = "live"
    /\ LET fd == hs[tx.h].sock
           buf == BufTail(tx.data, tx.off)
           len == ReqLen(tx.size, tx.off) IN
       \E n \in SendResults(fds, fd, len) :
          LET x == Advance(tx, n) IN
          /\ tx' = x
          /\ IF n > 0
             THEN chan' = [chan EXCEPT ![fds[fd].peer] = @ \o Take(buf, n)]
             ELSE chan' = chan
          /\ IODone("send_all", tx.h, x, socket_ops_send(Eff(fds), fd, n))
    /\ UNCHANGED rx

\* recv_all(buffer, size) is entered; nothing of the buffer is filled yet.
RecvAllBegin(h, size) ==
    /\ rx.st = "idle"
    /\ hs[h].st = "live"
    /\ ~Busy(h)
    /\ LET fd == hs[h].sock
           from == IF IsOpen(fds, fd) /\ fds[fd].role = "conn" THEN fd ELSE -1
           x == [Idle EXCEPT !.h = h, !.data = [i \in 1..size |-> "?"], !.size = size,
                             !.fd = from,
                             !.st = IF LoopTest(0, size) THEN "run" ELSE "done"] IN
       /\ rx' = x
       /\ IODone("recv_all", h, x, Eff(fds))
    /\ UNCHANGED <<tx, chan>>

\* One turn of recv_all's loop: off += recv(buffer + off, size - off).
RecvStep ==
    /\ rx.st = "run"
    /\ hs[rx.h].st = "live"
    /\ LET fd == hs[rx.h].sock
           len == ReqLen(rx.size, rx.off) IN
       \E n \in RecvResults(fds, chan, fd, len) :
          LET got == IF n > 0 THEN SubSeq(chan[fd], 1, n) ELSE <<>>
              x == [Advance(rx, n) EXCEPT !.data = Store(rx.data, rx.off, got)] IN
          /\ rx' = x
          /\ IF n > 0
             THEN chan' = [chan EXCEPT ![fd] = SubSeq(@, n + 1, Len(@))]
             ELSE chan' = chan
          /\ IODone("recv_all", rx.h, x, socket_ops_recv(Eff(fds), fd, n))
    /\ UNCHANGED tx

\* --------------------------------------------- reading from the stream
HelloLine == <<"h", "e", "l", "l", "o", "\n">>

Hello == SubSeq(HelloLine, 1, Len(HelloLine) - 1)

\* What the peer writes in the line scenario: the line with or without its
\* newline.
LinePayloads == {Hello, HelloLine}

\* The get area of the filebuf (BUFSIZ bytes by default).
FilebufSize == 8192

\* basic_filebuf::underflow: a filebuf that is not open reports end of file
\* without a call; an open one reads from its descriptor.
FilebufReads(F, C, fbuf) ==
    IF fbuf < 0 THEN {0} ELSE RecvResults(F, C, fbuf, FilebufSize)

\* The result of a stream operation: none of them throws.
StreamDone(name, s, E) ==
    /\ op' = [name |-> name, a |-> s, b |-> 0]
    /\ res' = "ok"
    /\ calls' = E.calls
    /\ errno' = E.errno
    /\ pre' = SnapStream(ss[s])
    /\ UNCHANGED <<hs, fds, tx, rx>>

\* std::getline(stream, line) is entered: a stream that is not good gets
\* failbit and line is left alone; otherwise line is erased and the
\* extraction starts.
GetlineBegin(s) ==
    /\ ss[s].st = "live"
    /\ ss[s].rd = "no"
    /\ ~ss[s].pend
    /\ ss[s].reads < MaxReads
    /\ ss' = IF ss[s].bits # {}
             THEN [ss EXCEPT ![s].bits = @ \cup {"fail"}, ![s].reads = @ + 1]
             ELSE [ss EXCEPT ![s].rd = "run", ![s].line = <<>>, ![s].reads = @ + 1]
    /\ chan' = chan
    /\ StreamDone("getline", s, Eff(fds))

\* One step of the extraction: the next character of the get area is taken,
\* a newline ends the call and is dropped; an empty get area is refilled
\* from the descriptor (blocking), end of file ends the call with eofbit,
\* and with failbit too if nothing was extracted; a failed read gives badbit.
GetlineStep(s) ==
    /\ ss[s].st = "live"
    /\ ss[s].rd = "run"
    /\ IF ss[s].ibuf # <<>>
       THEN /\ ss' = IF Head(ss[s].ibuf) = "\n"
                     THEN [ss EXCEPT ![s].ibuf = Tail(@), ![s].rd = "no"]
                     ELSE [ss EXCEPT ![s].ibuf = Tail(@),
                                     ![s].line = Append(@, Head(ss[s].ibuf))]
            /\ chan' = chan
            /\ StreamDone("getline", s, Eff(fds))
       ELSE \E n \in FilebufReads(fds, chan, ss[s].fbuf) :
              LET fd == ss[s].fbuf
                  E1 == Log(Eff(fds), fds, "fbuf", "read", fd)
                  E == IF fd < 0 THEN Eff(fds)
                       ELSE IF n < 0 THEN Failed(E1, "read") ELSE E1 IN
              /\ IF n > 0
                 THEN /\ ss' = [ss EXCEPT ![s].ibuf = SubSeq(chan[fd], 1, n)]
                      /\ chan' = [chan EXCEPT ![fd] = SubSeq(@, n + 1, Len(@))]
                 ELSE /\ ss' = [ss EXCEPT
                                  ![s].rd = "no",
                                  ![s].bits = IF n < 0 THEN @ \cup {"bad"}
                                              ELSE IF ss[s].line = <<>>
                                              THEN @ \cup {"eof", "fail"}
                                              ELSE @ \cup {"eof"}]
                      /\ chan' = chan
              /\ StreamDone("getline", s, E)

\* if (!stream): operator! is fail(), true with failbit or badbit.
stream_not_good(bits) == bits # {}

stream_not(bits) == bits \cap {"fail", "bad"} # {}

\* check_conn(): throws when the stream has failed, changes nothing.
check_conn(s) ==
    /\ ss[s].st = "live"
    /\ ss[s].rd = "no"
    /\ op' = [name |-> "check_conn", a |-> s, b |-> 0]
    /\ res' = IF stream_not(ss[s].bits) THEN "network_exception" ELSE "ok"
    /\ calls' = <<>>
    /\ errno' = "stale"
    /\ pre' = SnapStream(ss[s])
    /\ UNCHANGED <<hs, ss, fds, chan, tx, rx>>

Init ==
    /\ hs = [h \in Handles |-> NoHandle]
    /\ ss = [s \in Streams |-> NoStream]
    /\ fds = [f \in Fds |-> NoFd]
    /\ chan = [f \in Fds |-> <<>>]
    /\ tx = Idle
    /\ rx = Idle
    /\ op = [name |-> "init", a |-> 0, b |-> 0]
    /\ res = "ok"
    /\ calls = <<>>
    /\ errno = "stale"
    /\ pre = Snap(NoHandle)

\* The handle's life: creation, moves, the connection calls, destruction.
Next ==
    \/ \E h \in Handles : Create(h)
    \/ \E h \in Handles : Destroy(h)
    \/ \E h, d \in Handles : Move(h, d)
    \/ \E h \in Handles, host \in Hosts, port \in ArgPorts : Connect(h, host, port)
    \/ \E h \in Handles, port \in ArgPorts : Listen(h, port)
    \/ \E h, d \in Handles : Accept(h, d)
    \/ \E h \in Handles : Close(h)

Spec == Init /\ [][Next]_vars

\* Handles and the streams built over them.
NextStream ==
    \/ \E h \in Handles : Create(h)
    \/ \E h \in Handles : Destroy(h)
    \/ \E h \in Handles : Close(h)
    \/ \E s \in Streams, h \in Handles : StreamConstruct(s, h)
    \/ \E s, d \in Streams : StreamMove(s, d)
    \/ \E s \in Streams : StreamWrite(s)
    \/ \E s \in Streams : StreamFlush(s)
    \/ \E s \in Streams : StreamDestroy(s)

SpecStream == Init /\ [][NextStream]_vars
\* The scenario's handles once A listens on 0xABCD, B has connected and A
\* has accepted C: the state Spec is in after Create(1), Listen(1, 43981),
\* Create(2), Connect(2, "127.0.0.1", 43981), Accept(1, 3).
Established ==
    /\ hs = [h \in Handles |->
               IF h = 1 THEN [st |-> "live", sock |-> 0, portno |-> 43981]
               ELSE IF h = 2 THEN [st |-> "live", sock |-> 1, portno |-> 43981]
               ELSE IF h = 3 THEN [st |-> "live", sock |-> 2, portno |-> 0]
               ELSE NoHandle]
    /\ ss = [s \in Streams |-> NoStream]
    /\ fds = [f \in Fds |->
               IF f = 0 THEN [NoFd EXCEPT !.open = TRUE, !.role = "listen", !.port = 43981]
               ELSE IF f = 1 THEN [NoFd EXCEPT !.open = TRUE, !.role = "conn", !.peer = 2]
               ELSE IF f = 2 THEN [NoFd EXCEPT !.open = TRUE, !.role = "conn", !.peer = 1]
               ELSE NoFd]
    /\ chan = [f \in Fds |-> <<>>]
    /\ tx = Idle
    /\ rx = Idle
    /\ op = [name |-> "accept", a |-> 1, b |-> 3]
    /\ res = "ok"
    /\ calls = <<[by |-> "socket", call |-> "accept", fd |-> 0, ok |-> TRUE]>>
    /\ errno = "stale"
    /\ pre = [sock |-> 0, portno |-> 43981, fbuf |-> -1, moved |-> FALSE, bits |-> {}]

\* One send_all and one recv_all over the established handles, on any of
\* them, with any buffer and any split into attempts, while handles are shut
\* down and destroyed.
NextIO ==
    \/ \E h \in Handles, data \in Payloads : SendAllBegin(h, data)
    \/ SendStep
    \/ \E h \in Handles, size \in 0..MaxSize : RecvAllBegin(h, size)
    \/ RecvStep
    \/ \E h \in Handles : Close(h)
    \/ \E h \in Handles : Destroy(h)

SpecIO == Established /\ [][NextIO]_vars

\* The accepted handle C and its peer B among the established handles.
HandleB == 2
HandleC == 3

\* The line scenario over the established handles: streams are constructed
\* from C (the first holds the connection, a later one what the move left in
\* C), B writes the line with one send_all and is destroyed, lines are read
\* from the streams and check_conn is called in between, in any order.
NextLine ==
    \/ \E s \in Streams : StreamConstruct(s, HandleC)
    \/ \E data \in LinePayloads : SendAllBegin(HandleB, data)
    \/ SendStep
    \/ Destroy(HandleB)
    \/ \E s \in Streams : GetlineBegin(s)
    \/ \E s \in Streams : GetlineStep(s)
    \/ \E s \in Streams : check_conn(s)

SpecLine == Established /\ [][NextLine]_vars
\* ------------------------------------------------------------- claims
LiveHandles == {h \in Handles : hs[h].st = "live"}
LiveStreams == {s \in Streams : ss[s].st = "live"}

Shutdown(fd, ok) == [by |-> "socket", call |-> "shutdown", fd |-> fd, ok |-> ok]
OsCloseCall(fd, ok) == [by |-> "socket", call |-> "close", fd |-> fd, ok |-> ok]

\* C1: when a send_all of size > 0 bytes and a recv_all of the same size on
\* the peer's descriptor have both returned, the receiver's buffer equals the
\* sender's, byte for byte, however the attempts split the transfer.
C1_RoundTrip ==
    (/\ tx.st = "done" /\ rx.st = "done"
     /\ tx.size > 0 /\ rx.size = tx.size
     /\ tx.fd >= 0 /\ rx.fd = tx.fd)
    => rx.data = tx.data

\* B sent "ping" in more than one attempt and C received it in more than one.
C1_Witness ==
    /\ tx.st = "done" /\ tx.h = 2 /\ tx.data = Ping /\ tx.tries > 1
    /\ rx.st = "done" /\ rx.h = 3 /\ rx.data = Ping /\ rx.tries > 1

\* C2: in the OS calls of a stream's destruction, every call of the filebuf's
\* teardown (its flush, its close) comes before any shutdown of the descriptor.
C2_BufferBeforeShutdown ==
    (op.name = "stream_destroy" /\ pre.fbuf >= 0)
    => \A i, j \in DOMAIN calls :
          (calls[i].by = "fbuf" /\ calls[j].call = "shutdown") => i < j

\* C3: no two live handles hold the same descriptor other than -1, and a move
\* leaves -1 in its source and the source's descriptor in its destination.
C3_ExclusiveOwnership ==
    /\ \A h, g \in LiveHandles : (h # g /\ hs[h].sock >= 0) => hs[h].sock # hs[g].sock
    /\ op.name = "move" => (hs[op.a].sock = -1 /\ hs[op.b].sock = pre.sock)

\* A handle that held a descriptor was moved while another handle held one.
C3_Witness ==
    /\ op.name = "move" /\ pre.sock >= 0
    /\ \E g \in LiveHandles : g # op.b /\ hs[g].sock >= 0

\* C4: every open descriptor is held by an object that is still alive (no
\* leak), and no close(2) is issued on a descriptor that is not open (no
\* second close).
C4_ClosedExactlyOnce ==
    /\ \A f \in Fds : fds[f].open =>
          \/ \E h \in LiveHandles : hs[h].sock = f
          \/ \E s \in LiveStreams : ss[s].sock = f \/ ss[s].fbuf = f
    /\ \A i \in DOMAIN calls : calls[i].call = "close" => calls[i].ok

\* C5: a handle's descriptor is -1 or open in the OS, a destroyed handle holds
\* -1, and no OS call names a descriptor that is closed.
C5_ValidOrSentinel ==
    /\ \A h \in Handles : hs[h].sock = -1 \/ IsOpen(fds, hs[h].sock)
    /\ \A s \in Streams : ss[s].sock = -1 \/ IsOpen(fds, ss[s].sock)
    /\ \A h \in Handles : hs[h].st = "dead" => hs[h].sock = -1
    /\ \A i \in DOMAIN calls : calls[i].fd >= 0 => calls[i].ok

\* C6: after a move the source holds -1 and the destination holds the
\* descriptor and the port the source had.
C6_MoveKeepsState ==
    op.name = "move" =>
        /\ hs[op.a].sock = -1
        /\ hs[op.b].sock = pre.sock
        /\ hs[op.b].portno = pre.portno

\* C7: destroying a handle with a descriptor issues shutdown then close on
\* it and nothing else; destroying one that holds -1 issues nothing; either
\* way the handle holds -1 afterwards and nothing is thrown.
C7_Destruction ==
    op.name = "destroy" =>
        /\ hs[op.a].sock = -1
        /\ res = "ok"
        /\ calls = IF pre.sock >= 0
                   THEN <<Shutdown(pre.sock, TRUE), OsCloseCall(pre.sock, TRUE)>>
                   ELSE <<>>
        /\ pre.sock >= 0 => ~IsOpen(fds, pre.sock)

\* Both cases at once: a handle with a descriptor was just destroyed, and a
\* handle destroyed earlier is there to be destroyed again.
C7_Witness ==
    /\ op.name = "destroy" /\ pre.sock >= 0 /\ Len(calls) = 2
    /\ \E g \in Handles : g # op.a /\ hs[g].st = "dead"

\* C8: an attempt that moves n > 0 bytes and leaves some to go keeps the call
\* in its loop; an attempt with n <= 0 ends the call with network_exception
\* at once; the call returns only with off = size.
C8_Call(x) ==
    /\ (x.tries > 0 /\ x.n <= 0) => x.st = "failed"
    /\ (x.tries > 0 /\ x.n > 0 /\ x.off < x.size) => x.st = "run"
    /\ x.st = "failed" => (x.tries > 0 /\ x.n <= 0 /\ x.off < x.size)
    /\ x.st = "done" => x.off = x.size

C8_PartialOnly == C8_Call(tx) /\ C8_Call(rx)

\* recv_all got some bytes, then end of stream; send_all sent some bytes,
\* then failed.
C8_Witness ==
    /\ rx.st = "failed" /\ rx.n = 0 /\ rx.off > 0
    /\ tx.st = "failed" /\ tx.n = -1 /\ tx.off > 0

\* C9: send_all and recv_all of 0 bytes return without a single attempt.
C9_Call(x) == (x.st # "idle" /\ x.size = 0) => (x.st = "done" /\ x.tries = 0)

C9_ZeroSize == C9_Call(tx) /\ C9_Call(rx)

\* Both were called with size 0 on B after its peer C was destroyed.
C9_Witness ==
    /\ tx.st = "done" /\ tx.size = 0 /\ tx.h = 2
    /\ rx.st = "done" /\ rx.size = 0 /\ rx.h = 2
    /\ hs[3].st = "dead" /\ hs[2].sock >= 0 /\ fds[hs[2].sock].peer = -1
    /\ op.name \in {"send_all", "recv_all"} /\ calls = <<>>

\* C10: connect returns normally only with the connection made; when it
\* throws, the handle holds the descriptor it held, still open, and its
\* destruction from there issues one shutdown and one close on it.
C10_ConnectFailure ==
    op.name = "connect" =>
        /\ hs[op.a].sock = pre.sock
        /\ res = "ok" => (IsOpen(fds, pre.sock) /\ fds[pre.sock].role = "conn")
        /\ (res = "network_exception" /\ pre.sock >= 0) =>
              /\ IsOpen(fds, pre.sock)
              /\ LET E == socket_dtor(Eff(fds), hs[op.a].sock) IN
                 /\ E.calls = <<Shutdown(pre.sock, TRUE), OsCloseCall(pre.sock, TRUE)>>
                 /\ ~IsOpen(E.F, pre.sock)

\* connect(2) itself failed on a handle with an open descriptor.
C10_Witness ==
    /\ op.name = "connect" /\ res = "network_exception"
    /\ pre.sock >= 0 /\ Len(calls) = 1 /\ fds[pre.sock].role = "new"

\* C11: close() issues one shutdown on the descriptor the handle holds and
\* nothing else: sock and portno stay as they were, the descriptor stays
\* open, and the destructor run from there still shuts down and closes it.
C11_CloseOnlyShutsDown ==
    op.name = "close" =>
        /\ hs[op.a] = [st |-> "live", sock |-> pre.sock, portno |-> pre.portno]
        /\ calls = <<Shutdown(pre.sock, pre.sock >= 0)>>
        /\ pre.sock >= 0 =>
              /\ IsOpen(fds, pre.sock)
              /\ LET E == socket_dtor(Eff(fds), hs[op.a].sock) IN
                 /\ E.calls = <<Shutdown(pre.sock, TRUE), OsCloseCall(pre.sock, TRUE)>>
                 /\ ~IsOpen(E.F, pre.sock)

\* close() on a connected handle with a recorded port.
C11_Witness ==
    /\ op.name = "close" /\ pre.sock >= 0 /\ pre.portno # 0
    /\ fds[pre.sock].role = "conn" /\ fds[pre.sock].shut

\* C12: accept() leaves the listener's sock and portno as they were; when it
\* returns, the new handle holds an open descriptor that no other live
\* handle holds, the listener's included, and the listener still listens;
\* when accept(2) fails it throws with that call's code and the slot of the
\* would-be handle stays empty.
C12_AcceptFreshDescriptor ==
    op.name = "accept" =>
        /\ hs[op.a].sock = pre.sock /\ hs[op.a].portno = pre.portno
        /\ res = "ok" =>
              /\ hs[op.b].st = "live" /\ IsOpen(fds, hs[op.b].sock)
              /\ hs[op.b].sock # pre.sock
              /\ \A g \in LiveHandles \ {op.b} : hs[g].sock # hs[op.b].sock
              /\ IsOpen(fds, pre.sock) /\ fds[pre.sock].role = "listen"
        /\ res = "network_exception" =>
              /\ hs[op.b] = NoHandle
              /\ errno = "accept"
              /\ \A f \in Fds : fds[f].open => \E g \in LiveHandles : hs[g].sock = f

\* The listener accepted its second connection: three handles besides it
\* would exceed the slots, so the first accepted one is already destroyed.
C12_Witness ==
    /\ op.name = "accept" /\ res = "ok" /\ pre.sock >= 0
    /\ Cardinality(LiveHandles) = MaxHandles
    /\ fds[hs[op.b].sock].peer >= 0

\* The calls whose error code a network_exception of an operation may hold.
FailingCalls(name) ==
    CASE name = "create" -> {"socket"}
      [] name = "connect" -> {"connect"}
      [] name = "listen" -> {"bind", "listen"}
      [] name = "accept" -> {"accept"}
      [] name = "send_all" -> {"send"}
      [] name = "recv_all" -> {"recv"}
      [] OTHER -> {}

\* C13: the code a network_exception holds was set by a call of the operation
\* that threw it, never left over from before the operation.
C13_ErrorCode ==
    (res = "network_exception" /\ FailingCalls(op.name) # {})
    => errno \in FailingCalls(op.name)

\* C19: listen(port) issues bind(2) first and listen(2) second, the second
\* only when the first succeeded; it returns normally exactly when both
\* succeeded and throws with the failing call's code otherwise; sock stays as
\* it was and portno holds the port in every case.
C19_BindThenListen ==
    op.name = "listen" =>
        /\ hs[op.a].sock = pre.sock /\ hs[op.a].portno \in ArgPorts
        /\ Len(calls) \in {1, 2}
        /\ calls[1].call = "bind" /\ calls[1].fd = pre.sock
        /\ Len(calls) = 2 =>
              /\ calls[2].call = "listen" /\ calls[2].fd = pre.sock
              /\ errno # "bind"
              /\ IsOpen(fds, pre.sock) /\ fds[pre.sock].port = hs[op.a].portno
        /\ Len(calls) = 1 => (errno = "bind" /\ res = "network_exception")
        /\ errno = "listen" => (res = "network_exception" /\ fds[pre.sock].role = "bound")
        /\ res = "ok" <=> errno = "stale"
        /\ res = "ok" => (fds[pre.sock].role = "listen"
                          /\ Len(fds[pre.sock].backlog) <= Backlog)

\* bind(2) failed on an open descriptor of a handle that had no port yet.
C19_Witness ==
    /\ op.name = "listen" /\ res = "network_exception" /\ errno = "bind"
    /\ pre.sock >= 0 /\ pre.portno = 0 /\ fds[pre.sock].role = "new"

\* C16: send_all and recv_all end within size attempts: while the loop runs
\* every attempt made so far moved at least one byte and bytes remain; a
\* normal return has moved exactly size bytes, and the only other way out is
\* the network_exception of an attempt that returned <= 0.
C16_Call(x) ==
    /\ x.tries <= x.size
    /\ x.st = "run" => (x.tries <= x.off /\ x.off < x.size)
    /\ x.st = "done" => (x.off = x.size /\ (x.tries > 0 => x.n > 0))
    /\ x.st = "failed" => (x.n <= 0 /\ x.tries > 0)

C16_EndsWithinSize ==
    /\ C16_Call(tx) /\ C16_Call(rx)
    /\ op.name \in {"send_all", "recv_all"} =>
          LET x == IF op.name = "send_all" THEN tx ELSE rx IN
          res = "network_exception" <=> x.st = "failed"

\* recv_all needed as many attempts as bytes: one byte each time.
C16_Witness ==
    /\ rx.st = "done" /\ rx.size = MaxSize /\ rx.tries = MaxSize
    /\ op.name = "recv_all" /\ res = "ok"

\* C17: off stays within 0..size, and every attempt is issued at an offset
\* inside the buffer for exactly the size - off bytes that remain from
\* there, so it neither asks for nor moves a byte outside the buffer.
C17_Call(x) ==
    /\ 0 <= x.off /\ x.off <= x.size
    /\ x.tries > 0 =>
          /\ 0 <= x.at /\ x.at < x.size
          /\ x.len = x.size - x.at
          /\ x.n <= x.len
          /\ x.off = IF x.n > 0 THEN x.at + x.n ELSE x.at

C17_TailOnly == C17_Call(tx) /\ C17_Call(rx)

\* The last attempt of a send_all was issued for the one byte left, and the
\* last attempt of a recv_all at the last byte of its buffer.
C17_Witness ==
    /\ tx.st = "done" /\ tx.at = tx.size - 1 /\ tx.len = 1 /\ tx.tries > 1
    /\ rx.st = "done" /\ rx.at = rx.size - 1 /\ rx.len = 1 /\ rx.tries > 1

\* C18: a stream move hands sock and the open filebuf to the destination and
\* leaves the source with the sentinel and a filebuf that is not open; the
\* destruction of a stream in that state issues no OS call at all, so the
\* destination's descriptor is neither shut down nor closed by it.
C18_MovedFromStreamInert ==
    /\ op.name = "stream_move" =>
          /\ ss[op.b].sock = pre.sock /\ ss[op.b].fbuf = pre.fbuf
          /\ ss[op.a].sock = -1 /\ ss[op.a].fbuf = -1
    /\ (op.name = "stream_destroy" /\ pre.moved) => calls = <<>>

\* C14: check_conn() throws network_exception exactly when the stream had
\* failbit or badbit set, issues no OS call, and leaves the stream's state
\* and the members' descriptors as they were.
C14_CheckConn ==
    op.name = "check_conn" =>
        /\ res = "network_exception" <=> pre.bits \cap {"fail", "bad"} # {}
        /\ res = "ok" <=> pre.bits \subseteq {"eof"}
        /\ calls = <<>>
        /\ ss[op.a].bits = pre.bits
        /\ ss[op.a].sock = pre.sock /\ ss[op.a].fbuf = pre.fbuf

\* check_conn() threw on a stream whose read had met end of file at once.
C14_Witness ==
    /\ op.name = "check_conn" /\ res = "network_exception"
    /\ pre.bits = {"eof", "fail"} /\ pre.fbuf >= 0

\* The line scenario on stream s: the peer's send_all of "hello\n" into the
\* descriptor of the stream's handle has returned.
LineSent(s) ==
    /\ ss[s].st = "live" /\ ss[s].sock >= 0
    /\ tx.st = "done" /\ tx.data = HelloLine /\ tx.fd = ss[s].sock

PeerClosed(s) == IsOpen(fds, ss[s].sock) /\ fds[ss[s].sock].peer < 0

\* C15 as stated: in the line scenario the first getline yields "hello", and
\* a check_conn() made after that read, the peer having closed, throws.
C15_CheckAfterLineThrows ==
    /\ \A s \in Streams :
          (LineSent(s) /\ ss[s].reads = 1 /\ ss[s].rd = "no") => ss[s].line = Hello
    /\ (/\ op.name = "check_conn" /\ LineSent(op.a) /\ PeerClosed(op.a)
        /\ ss[op.a].reads = 1)
       => res = "network_exception"

\* C15, amended: in the line scenario the first getline yields "hello" and
\* leaves the stream good, so a check_conn() right after it returns
\* normally; a further getline yields nothing and sets eofbit and failbit,
\* and a check_conn() after that one throws.
C15_LineThenEndOfStream ==
    \A s \in Streams :
       (LineSent(s) /\ ss[s].rd = "no") =>
          /\ ss[s].reads = 1 =>
                /\ ss[s].line = Hello /\ ss[s].bits = {}
                /\ (op.name = "check_conn" /\ op.a = s) => res = "ok"
          /\ ss[s].reads > 1 =>
                /\ ss[s].line = <<>> /\ ss[s].bits = {"eof", "fail"}
                /\ (op.name = "check_conn" /\ op.a = s) => res = "network_exception"

\* The peer sent "hello\n" and was destroyed, one line was read from the
\* stream, and the check_conn() after that read returned normally.
C15_Witness ==
    /\ op.name = "check_conn" /\ res = "ok"
    /\ LineSent(op.a) /\ PeerClosed(op.a)
    /\ ss[op.a].reads = 1 /\ ss[op.a].line = Hello
====
